---- MODULE Spec2Model ----
(***************************************************************************)
(* A model of asciifier.py: the Asciifier class (luminance ramp, process,  *)
(* to_plain_text, to_postscript, to_pdf, generate_luminosity_mapping) and  *)
(* the command-line driver main().                                         *)
(*                                                                         *)
(* Characters are modelled by their code points (32 = ' ').  Lengths are   *)
(* in bytes.  Physical lengths are exact rationals <<n, d>>.  The pixel    *)
(* luminance is computed in IEEE-754 double precision as Python does, on   *)
(* multi-limb integers, because the ramp index at the top of the range     *)
(* depends on the rounding.                                                *)
(***************************************************************************)
EXTENDS Integers, Sequences, FiniteSets, TLC

(***************************************************************************)
(* Unsigned multi-limb integers: little-endian sequences of limbs in base  *)
(* 2^20, no leading zero limb, <<>> for 0.                                 *)
(***************************************************************************)
Base == 2^20

Pow2(n) == 2^n

RECURSIVE Trim(_)
Trim(a) ==
    IF a = <<>> THEN <<>>
    ELSE IF a[Len(a)] = 0 THEN Trim(SubSeq(a, 1, Len(a) - 1))
    ELSE a

RECURSIVE MulCarry(_, _, _, _)
MulCarry(a, k, i, carry) ==
    IF i > Len(a) THEN (IF carry = 0 THEN <<>> ELSE <<carry>>)
    ELSE LET t == a[i] * k + carry
         IN  <<t % Base>> \o MulCarry(a, k, i + 1, t \div Base)

\* a * k for a small multiplier 0 <= k <= 1024
BigMulSmall(a, k) == Trim(MulCarry(a, k, 1, 0))

RECURSIVE DivStep(_, _, _, _, _)
\* long division from the top limb down; q collects the quotient's limbs
DivStep(a, d, i, rem, q) ==
    IF i = 0 THEN [q |-> Trim(q), r |-> rem]
    ELSE DivStep(a, d, i - 1, (rem * Base + a[i]) % d,
                 <<(rem * Base + a[i]) \div d>> \o q)

\* quotient and remainder of a by a small divisor 1 <= d <= 1024
BigDivSmall(a, d) == DivStep(a, d, Len(a), 0, <<>>)

RECURSIVE AddCarry(_, _, _, _)
AddCarry(a, b, i, carry) ==
    IF i > Len(a) /\ i > Len(b) THEN (IF carry = 0 THEN <<>> ELSE <<carry>>)
    ELSE LET x == IF i <= Len(a) THEN a[i] ELSE 0
             y == IF i <= Len(b) THEN b[i] ELSE 0
             t == x + y + carry
         IN  <<t % Base>> \o AddCarry(a, b, i + 1, t \div Base)

BigAdd(a, b) == Trim(AddCarry(a, b, 1, 0))

BigIsOdd(a) == a # <<>> /\ a[1] % 2 = 1

RECURSIVE BitLenSmall(_)
BitLenSmall(x) == IF x = 0 THEN 0 ELSE 1 + BitLenSmall(x \div 2)

BitLen(a) == IF a = <<>> THEN 0 ELSE 20 * (Len(a) - 1) + BitLenSmall(a[Len(a)])

RECURSIVE ShiftLeft(_, _)
ShiftLeft(a, n) ==
    IF n = 0 THEN a
    ELSE IF n > 10 THEN ShiftLeft(BigMulSmall(a, Pow2(10)), n - 10)
    ELSE BigMulSmall(a, Pow2(n))

\* a with its n low bits dropped; sticky tells whether a dropped bit was set
RECURSIVE ShiftRightSticky(_, _, _)
ShiftRightSticky(a, n, sticky) ==
    IF n = 0 THEN [q |-> a, sticky |-> sticky]
    ELSE LET s == IF n > 10 THEN 10 ELSE n
             x == BigDivSmall(a, Pow2(s))
         IN  ShiftRightSticky(x.q, n - s, sticky \/ x.r # 0)

BigToInt(a) ==
    IF a = <<>> THEN 0
    ELSE IF Len(a) = 1 THEN a[1]
    ELSE a[1] + Base * a[2]

(***************************************************************************)
(* IEEE-754 doubles (non-negative, normal range): [m, e] stands for        *)
(* m * 2^e with m below 2^53 (or exactly 2^53).  Every operation rounds    *)
(* the exact result to 53 bits, to nearest, ties to even.                  *)
(***************************************************************************)
RoundToDouble(m, e, sticky0) ==
    LET n == BitLen(m)
    IN  IF n <= 53 THEN [m |-> m, e |-> e]
        ELSE LET s      == n - 53
                 x      == ShiftRightSticky(m, s - 1, sticky0)
                 guard  == BigIsOdd(x.q)
                 q      == BigDivSmall(x.q, 2).q
                 up     == guard /\ (x.sticky \/ BigIsOdd(q))
             IN  [m |-> IF up THEN BigAdd(q, <<1>>) ELSE q, e |-> e + s]

\* x * k, k an integer 0..1024 (exactly representable)
FMulInt(x, k) == RoundToDouble(BigMulSmall(x.m, k), x.e, FALSE)

FAdd(x, y) ==
    IF x.m = <<>> THEN y
    ELSE IF y.m = <<>> THEN x
    ELSE LET e == IF x.e < y.e THEN x.e ELSE y.e
         IN  RoundToDouble(BigAdd(ShiftLeft(x.m, x.e - e), ShiftLeft(y.m, y.e - e)),
                           e, FALSE)

\* x / d, d an integer 1..1024
FDivInt(x, d) ==
    IF x.m = <<>> THEN x
    ELSE LET up == 66 - BitLen(x.m)
             qr == BigDivSmall(ShiftLeft(x.m, up), d)
         IN  RoundToDouble(qr.q, x.e - up, qr.r # 0)

\* int(x): truncation toward zero
FTrunc(x) ==
    IF x.e >= 0 THEN BigToInt(ShiftLeft(x.m, x.e))
    ELSE BigToInt(ShiftRightSticky(x.m, -x.e, FALSE).q)

\* the doubles nearest to 0.2126, 0.7152 and 0.0722
WeightR == [m |-> <<38588, 499961, 6966>>, e |-> -55]
WeightG == [m |-> <<208037, 963012, 5858>>, e |-> -53]
WeightB == [m |-> <<355677, 733164, 4731>>, e |-> -56]

\* variant: the luminance from whole-number weights,
\* (2126 * r + 7152 * g + 722 * b) / 10000, which is 255 for white
LuminanceScaled(r, g, b) ==
    FDivInt(FDivInt([m |-> Trim(<<(2126 * r + 7152 * g + 722 * b) % Base,
                                  (2126 * r + 7152 * g + 722 * b) \div Base>>),
                     e |-> 0], 100), 100)

\* l = 0.2126 * r + 0.7152 * g + 0.0722 * b
Luminance(r, g, b) ==
    FAdd(FAdd(FMulInt(WeightR, r), FMulInt(WeightG, g)), FMulInt(WeightB, b))

\* variant: the ramp read from its light end
RampIndexInverted(r, g, b, nchars) ==
    nchars - 1 - FTrunc(FDivInt(FMulInt(Luminance(r, g, b), nchars), 255))

\* int(l * nchars / 255)
RampIndex(r, g, b, nchars) ==
    FTrunc(FDivInt(FMulInt(Luminance(r, g, b), nchars), 255))

(***************************************************************************)
(* Exact rationals <<n, d>>, d > 0, in lowest terms.                       *)
(***************************************************************************)
Abs(x) == IF x < 0 THEN -x ELSE x

RECURSIVE GCD(_, _)
GCD(a, b) == IF b = 0 THEN a ELSE GCD(b, a % b)

RNorm(n, d) ==
    LET g == GCD(Abs(n), Abs(d))
        s == IF d < 0 THEN -1 ELSE 1
    IN  <<(s * n) \div g, (s * d) \div g>>

RInt(k) == <<k, 1>>
RAdd(a, b) == RNorm(a[1] * b[2] + b[1] * a[2], a[2] * b[2])
RSub(a, b) == RNorm(a[1] * b[2] - b[1] * a[2], a[2] * b[2])
RMul(a, b) == RNorm(a[1] * b[1], a[2] * b[2])
RDiv(a, b) == RNorm(a[1] * b[2], a[2] * b[1])
RLe(a, b) == a[1] * b[2] <= b[1] * a[2]
RLt(a, b) == a[1] * b[2] < b[1] * a[2]
RFloor(a) == a[1] \div a[2]
\* math.ceil
RCeil(a) == RInt(-((-a[1]) \div a[2]))

(***************************************************************************)
(* Byte lengths of formatted numbers.                                      *)
(***************************************************************************)
RECURSIVE DecLen(_)
\* len(str(n)) for an int n >= 0
DecLen(n) == IF n < 10 THEN 1 ELSE 1 + DecLen(n \div 10)

RECURSIVE FracDigits(_, _, _, _)
\* the first k decimal digits of rem / d (0 <= rem < d), after the digits ds,
\* and the remainder left
FracDigits(rem, d, k, ds) ==
    IF k = 0 THEN [ds |-> ds, rem |-> rem]
    ELSE FracDigits((rem * 10) % d, d, k - 1, Append(ds, (rem * 10) \div d))

RECURSIVE StripZeros(_)
StripZeros(ds) ==
    IF ds = <<>> THEN <<>>
    ELSE IF ds[Len(ds)] = 0 THEN StripZeros(SubSeq(ds, 1, Len(ds) - 1))
    ELSE ds

\* the digit string plus one in its last place; carry tells of an overflow
Increment(ds) ==
    LET low == {i \in 1..Len(ds) : ds[i] < 9}
    IN  IF low = {} THEN [ds |-> [i \in 1..Len(ds) |-> 0], carry |-> TRUE]
        ELSE LET j == CHOOSE i \in low : \A k \in low : k <= i
             IN  [ds |-> [i \in 1..Len(ds) |->
                            IF i < j THEN ds[i] ELSE IF i = j THEN ds[j] + 1 ELSE 0],
                  carry |-> FALSE]

RECURSIVE LeadingZeros(_, _)
\* the zeros between the point and the first significant digit of rem / d
LeadingZeros(rem, d) ==
    IF rem = 0 \/ rem * 10 >= d THEN 0 ELSE 1 + LeadingZeros(rem * 10, d)

\* len(str(x)) of the Python 2 float nearest to the rational a: '%.12g' (12
\* significant digits, trailing zeros dropped), with '.0' added to a result
\* that shows no fraction.  For a = 0 or 10^-4 <= |a| < 10^12.
StrFloatLen(a) ==
    LET sign == IF a[1] < 0 THEN 1 ELSE 0
        n    == Abs(a[1])
        ip   == n \div a[2]
        k    == IF ip > 0 THEN 12 - DecLen(ip) ELSE 12 + LeadingZeros(n, a[2])
        f    == FracDigits(n % a[2], a[2], k, <<>>)
        up   == 2 * f.rem >= a[2]
        inc  == IF up THEN Increment(f.ds) ELSE [ds |-> f.ds, carry |-> FALSE]
        ip2  == IF inc.carry THEN ip + 1 ELSE ip
        fr   == StripZeros(inc.ds)
    IN  sign + DecLen(ip2) + 1 + (IF fr = <<>> THEN 1 ELSE Len(fr))

(***************************************************************************)
(* mm2pt: 2.834645669 * mm.  The factor is 2834645669 / 10^9, wider than a *)
(* 32-bit integer of TLC, so it is handled on multi-limb integers.         *)
(***************************************************************************)
BigFromInt(n) == Trim(<<n % Base, n \div Base>>)

RECURSIVE BigMulInt(_, _)
BigMulInt(a, k) ==
    IF k <= 1024 THEN BigMulSmall(a, k)
    ELSE BigAdd(BigMulSmall(a, k % 1024), ShiftLeft(BigMulInt(a, k \div 1024), 10))

RECURSIVE BigLeFrom(_, _, _)
BigLeFrom(a, b, i) ==
    IF i = 0 THEN TRUE
    ELSE IF a[i] # b[i] THEN a[i] < b[i]
    ELSE BigLeFrom(a, b, i - 1)

BigLe(a, b) ==
    IF Len(a) # Len(b) THEN Len(a) < Len(b) ELSE BigLeFrom(a, b, Len(a))

\* 2834645669
Mm2ptFactor == BigAdd(BigMulInt(BigFromInt(28346), 100000), BigFromInt(45669))

\* mm * 2834645669 and 10^9 * d, for a length mm = <<n, d>> >= 0: mm2pt(mm) is
\* their quotient
Mm2ptNum(mm) == BigMulInt(Mm2ptFactor, mm[1])
Mm2ptDen(mm) == BigMulInt(BigMulInt(BigMulInt(BigFromInt(mm[2]), 1000), 1000), 1000)

\* ceil(mm2pt(mm)), mm >= 0
CeilMm2pt(mm) ==
    LET a == BigDivSmall(Mm2ptNum(mm), 1000)
        b == BigDivSmall(a.q, 1000)
        c == BigDivSmall(b.q, 1000)
        e == BigDivSmall(c.q, mm[2])
        exact == a.r = 0 /\ b.r = 0 /\ c.r = 0 /\ e.r = 0
    IN  BigToInt(e.q) + (IF exact THEN 0 ELSE 1)

\* p <= mm2pt(mm) and mm2pt(mm) <= p, for a rational p and a length mm >= 0
LeMm2pt(p, mm) ==
    p[1] < 0 \/ BigLe(BigMulInt(Mm2ptDen(mm), p[1]), BigMulInt(Mm2ptNum(mm), p[2]))
Mm2ptLe(mm, p) ==
    p[1] >= 0 /\ BigLe(BigMulInt(Mm2ptNum(mm), p[2]), BigMulInt(Mm2ptDen(mm), p[1]))

(***************************************************************************)
(* Bounds and input sets of the model.  A table written f @@ <<>> is the   *)
(* function f, held by TLC as an explicit function and so computed once.   *)
(***************************************************************************)
\* an image on disk holds at most MaxPixels pixels, and so does every image
\* the pipeline derives from it
MaxPixels == 4

None == [none |-> TRUE]
\* self.result before the first process: None.  A grid is a sequence of
\* columns and never empty (an image is at least one pixel wide), so the
\* empty sequence stands for None
NoResult == <<>>

Black == <<0, 0, 0>>
White == <<255, 255, 255>>
\* a colour whose index the rounding of the doubles decides
Grey == <<30, 153, 162>>
\* the colours of one-pixel images: every mix of three levels, and Grey
Levels == {0, 128, 255}
Colors == (Levels \X Levels \X Levels) \cup {Grey}
\* images of several pixels are two-tone
Tones == {Black, White}

Sizes == {s \in (1..MaxPixels) \X (1..MaxPixels) : s[1] * s[2] <= MaxPixels}

\* an RGB image: px[x][y], columns x = 1..width, rows y = 1..height
ImagesOfSize(w, h, C) ==
    {[width |-> w, height |-> h, px |-> p] : p \in [1..w -> [1..h -> C]]}

Images ==
    ImagesOfSize(1, 1, Colors) \cup UNION {ImagesOfSize(s[1], s[2], Tones) : s \in Sizes}

\* the papers the render calls are given
ModelPapers == {"a3", "letter"}
\* aspect_ratio values passed to process (a float, held as a rational)
AspectChoices == {<<2, 1>>}
\* --aspect values given on the command line
MainAspectChoices == {<<3, 2>>}
\* resolution values passed to process
ResolutionChoices == {1, 2}

(***************************************************************************)
(* class Size / Margin / Asciifier                                         *)
(***************************************************************************)
Size(width, height) == [width |-> width, height |-> height]
Point(x, y) == [x |-> x, y |-> y]
Margin(top, right, bottom, left) ==
    [top |-> top, right |-> right, bottom |-> bottom, left |-> left]

\* PAPER_SIZES, in mm
PAPER_SIZES ==
    [a6 |-> Size(RInt(105), RInt(148)),
     a5 |-> Size(RInt(148), RInt(210)),
     a4 |-> Size(RInt(210), RInt(297)),
     a3 |-> Size(RInt(297), RInt(420)),
     a2 |-> Size(RInt(420), RInt(594)),
     a1 |-> Size(RInt(594), RInt(841)),
     a0 |-> Size(RInt(841), RInt(1189)),
     letter |-> Size(<<2159, 10>>, <<2794, 10>>)]

PAPER_CHOICES == DOMAIN PAPER_SIZES
TYPE_CHOICES == {"text", "postscript", "pdf"}

DefaultMargin == Margin(10, 10, 10, 10)
\* the margins an Asciifier of the model is built with
MarginChoices == {DefaultMargin}

\* the ramp __init__ sets, darkest first
DefaultLuminosity ==
    <<72, 82, 66, 69, 112, 77, 113, 81, 78, 87, 103, 35, 109, 98,
      65, 75, 100, 68, 56, 64, 80, 71, 70, 85, 104, 88, 101, 84,
      90, 83, 107, 79, 36, 121, 97, 76, 102, 54, 48, 119, 57, 38,
      53, 89, 120, 52, 110, 115, 67, 37, 86, 111, 50, 117, 74, 73,
      122, 51, 106, 99, 116, 114, 108, 118, 105, 125, 63, 123, 49, 61,
      93, 91, 43, 55, 60, 62, 124, 33, 42, 47, 59, 58, 126, 45,
      46, 32>>

Space == 32

\* the printable characters generate_luminosity_mapping ranks: range(32, 127)
Printable == 32..126

\* font names a caller passes: 'Courier' names no font file, the other does
Fonts == {"Courier", "fonts/Hack-Bold.ttf"}

\* the font files ImageFont.truetype can load, each with the ranking of the
\* printable characters by the luminance of their rendered glyphs (the font's
\* own; the blank glyph leaves the canvas white and ranks last)
FontRamp ==
    [f \in {"fonts/Hack-Bold.ttf"} |->
        [i \in 1..Cardinality(Printable) |->
            IF i = Cardinality(Printable) THEN Space ELSE 127 - i] @@ <<>>] @@ <<>>

RampLengths == {Len(DefaultLuminosity)} \cup {Len(FontRamp[f]) : f \in DOMAIN FontRamp}

VARIABLES
    disk,        \* the image stored in the file the run reads
    margins,     \* self.margins
    luminosity,  \* self.luminosity
    im,          \* self.im
    result,      \* self.result
    ret,         \* what the last call returned
    err,         \* the exception the last call raised, "" if none
    log          \* the last call and the pipeline steps it went through

vars == <<disk, margins, luminosity, im, result, ret, err, log>>

(***************************************************************************)
(* Image sampling (PIL).                                                   *)
(***************************************************************************)
\* Image.resize(size, filter): the new size is exact; of the filter's output
\* the model keeps, for each pixel, the source pixel under its centre
Resize(image, w, h) ==
    [width |-> w, height |-> h,
     px |-> [x \in 1..w |-> [y \in 1..h |->
               image.px[((2 * x - 1) * image.width) \div (2 * w) + 1]
                       [((2 * y - 1) * image.height) \div (2 * h) + 1]]]]

Max(a, b) == IF a > b THEN a ELSE b

\* Image.thumbnail(size, filter): shrink to fit in size, keeping the aspect
ThumbnailSize(image, size) ==
    LET x1 == IF image.width > size[1] THEN size[1] ELSE image.width
        y1 == IF image.width > size[1]
              THEN Max((image.height * size[1]) \div image.width, 1)
              ELSE image.height
        x2 == IF y1 > size[2] THEN Max((x1 * size[2]) \div y1, 1) ELSE x1
        y2 == IF y1 > size[2] THEN size[2] ELSE y1
    IN  <<x2, y2>>

Thumbnail(image, size) ==
    LET s == ThumbnailSize(image, size)
    IN  IF s = <<image.width, image.height>> THEN image
        ELSE Resize(image, s[1], s[2])

(***************************************************************************)
(* Asciifier.process                                                       *)
(***************************************************************************)
\* the image process samples: stretched when kwargs holds aspect_ratio, then
\* cut down to resolution columns (80 without the option)
StretchedWidth(image, aspect) == RFloor(RMul(RInt(image.width), aspect))

Stretched(image, kwargs) ==
    IF "aspect_ratio" \in DOMAIN kwargs
    THEN Resize(image, StretchedWidth(image, kwargs.aspect_ratio), image.height)
    ELSE image

Resolution(kwargs) ==
    IF "resolution" \in DOMAIN kwargs THEN kwargs.resolution ELSE 80

Sampled(image, kwargs) ==
    LET s == Stretched(image, kwargs)
    IN  Thumbnail(s, <<Resolution(kwargs), s.height>>)

\* int(l * nchars / 255) for the colours and ramp lengths of the model,
\* computed once
IndexOf ==
    [c \in Colors, n \in RampLengths |-> RampIndex(c[1], c[2], c[3], n)] @@ <<>>

\* int(l * nchars / 255) of pixel (x, y)
PixelIndex(image, x, y, nchars) == IndexOf[image.px[x][y], nchars]

\* the pixels, in the order of the loops (column by column), whose index is
\* no index of the ramp: the lookup raises IndexError at the first of them
Position(image, x, y) == (x - 1) * image.height + y

BadPositions(image, ramp) ==
    {Position(image, x, y) : <<x, y>> \in
        {c \in (1..image.width) \X (1..image.height) :
            PixelIndex(image, c[1], c[2], Len(ramp)) >= Len(ramp)}}

Min(S) == CHOOSE m \in S : \A n \in S : m <= n

\* self.result when the loops end, or when the lookup raises: the cells not
\* reached keep the blank they were created with
Grid(image, ramp) ==
    LET bad  == BadPositions(image, ramp)
        stop == IF bad = {} THEN image.width * image.height + 1 ELSE Min(bad)
    IN  [x \in 1..image.width |-> [y \in 1..image.height |->
            IF Position(image, x, y) < stop
            THEN ramp[PixelIndex(image, x, y, Len(ramp)) + 1]
            ELSE Space]]

ProcessSteps(kwargs) ==
    <<"open">> \o (IF "aspect_ratio" \in DOMAIN kwargs THEN <<"resize">> ELSE <<>>)
               \o <<"thumbnail", "grid">>

\* the fields process leaves behind, and the exception it raised
ProcessOutcome(image, ramp, kwargs) ==
    LET sampled == Sampled(image, kwargs)
    IN  [im |-> sampled,
         result |-> Grid(sampled, ramp),
         err |-> IF BadPositions(sampled, ramp) = {} THEN "" ELSE "IndexError"]

\* the kwargs a caller may pass to process
ProcessKwargs ==
    {<<>>}
    \cup {[aspect_ratio |-> a] : a \in AspectChoices}
    \cup {[resolution |-> r] : r \in ResolutionChoices}
    \cup {[aspect_ratio |-> a, resolution |-> r] :
            a \in AspectChoices, r \in ResolutionChoices}

\* the stretched image is within the bound of the model
InBounds(image, kwargs) ==
    LET s == Stretched(image, kwargs) IN s.width * s.height <= MaxPixels

Process(kwargs) ==
    /\ InBounds(disk, kwargs)
    /\ LET o == ProcessOutcome(disk, luminosity, kwargs)
       IN  /\ im' = o.im
           /\ result' = o.result
           /\ err' = o.err
    /\ ret' = None
    /\ log' = [op |-> "process", steps |-> ProcessSteps(kwargs)]
    /\ UNCHANGED <<disk, margins, luminosity>>

(***************************************************************************)
(* Asciifier.generate_luminosity_mapping                                   *)
(***************************************************************************)
\* variant: a font that cannot be loaded puts the default ramp back
LuminosityMappingReset(ramp, font_file) ==
    IF font_file \in DOMAIN FontRamp THEN FontRamp[font_file] ELSE DefaultLuminosity

\* self.luminosity after the call: IOError from truetype returns at once
LuminosityMapping(ramp, font_file) ==
    IF font_file \in DOMAIN FontRamp THEN FontRamp[font_file] ELSE ramp

GenerateLuminosityMapping(font_file) ==
    /\ luminosity' = LuminosityMapping(luminosity, font_file)
    /\ ret' = None
    /\ err' = ""
    /\ log' = [op |-> "generate_luminosity_mapping",
               steps |-> IF font_file \in DOMAIN FontRamp
                         THEN <<"truetype", "rank">> ELSE <<"truetype", "IOError">>]
    /\ UNCHANGED <<disk, margins, im, result>>

(***************************************************************************)
(* Asciifier.to_plain_text                                                 *)
(***************************************************************************)
Newline == <<10>>

\* the characters str.rstrip() removes
Whitespace == {9, 10, 11, 12, 13, 32}

\* zip(*self.result): row y holds cell y of every column
Rows(grid) == [y \in 1..Len(grid[1]) |-> [x \in 1..Len(grid) |-> grid[x][y]]]

\* variant: str.strip(), which removes the leading whitespace too
StripBoth(line) ==
    LET keep == {i \in 1..Len(line) : line[i] \notin Whitespace}
    IN  IF keep = {} THEN <<>>
        ELSE SubSeq(line, CHOOSE i \in keep : \A k \in keep : i <= k,
                          CHOOSE i \in keep : \A k \in keep : k <= i)

\* line.rstrip()
RStrip(line) ==
    LET keep == {i \in 1..Len(line) : line[i] \notin Whitespace}
    IN  IF keep = {} THEN <<>>
        ELSE SubSeq(line, 1, CHOOSE i \in keep : \A k \in keep : k <= i)

RECURSIVE JoinFrom(_, _, _, _)
JoinFrom(lines, sep, i, acc) ==
    IF i > Len(lines) THEN acc
    ELSE JoinFrom(lines, sep, i + 1, acc \o sep \o lines[i])

\* sep.join(lines)
Join(lines, sep) ==
    IF lines = <<>> THEN <<>> ELSE JoinFrom(lines, sep, 2, lines[1])

PlainText(grid) ==
    Join([y \in 1..Len(Rows(grid)) |-> RStrip(Rows(grid)[y])], Newline)

ToPlainText ==
    /\ IF result = NoResult
       THEN ret' = None /\ err' = "TypeError"
       ELSE ret' = [kind |-> "text", text |-> PlainText(result)] /\ err' = ""
    /\ log' = [op |-> "to_plain_text", steps |-> <<>>]
    /\ UNCHANGED <<disk, margins, luminosity, im, result>>

(***************************************************************************)
(* Asciifier.to_postscript                                                 *)
(***************************************************************************)
\* the cells in the order of the loops: row by row, left to right
Cells(image) ==
    [i \in 1..(image.width * image.height) |->
        <<((i - 1) % image.width) + 1, ((i - 1) \div image.width) + 1>>]

NonBlank(image, grid) ==
    SelectSeq(Cells(image), LAMBDA c : grid[c[1]][c[2]] # Space)

\* size_pt: the paper less the margins, in whole points:
\* ceil(mm2pt(paper) - mm2pt(margins))
PostscriptSizePt(m, paper) ==
    Size(CeilMm2pt(RSub(PAPER_SIZES[paper].width, RInt(m.left + m.right))),
         CeilMm2pt(RSub(PAPER_SIZES[paper].height, RInt(m.top + m.bottom))))

\* size_pt for the margins and papers of the model, computed once
SizePtOf ==
    [m \in MarginChoices, paper \in PAPER_CHOICES |-> PostscriptSizePt(m, paper)] @@ <<>>

PostscriptScale(image, m, paper) ==
    RDiv(RInt(SizePtOf[m, paper].width), RInt(image.width * 12))

PostscriptOffset(image, m, paper) ==
    Point(RAdd(RInt(m.left),
               RDiv(RSub(RInt(SizePtOf[m, paper].width),
                         RMul(RInt(image.width * 12), PostscriptScale(image, m, paper))),
                    RInt(2))),
          RAdd(RInt(m.top),
               RDiv(RSub(RInt(SizePtOf[m, paper].height),
                         RMul(RInt(image.height * 12), PostscriptScale(image, m, paper))),
                    RInt(2))))

\* the '(c) x y c' lines
PostscriptDraws(image, grid) ==
    [i \in 1..Len(NonBlank(image, grid)) |->
        LET c == NonBlank(image, grid)[i]
        IN  [c |-> grid[c[1]][c[2]],
             x |-> (c[1] - 1) * 12,
             y |-> (image.height - (c[2] - 1)) * 12]]

Postscript(image, grid, m, paper, font_name) ==
    [kind |-> "postscript",
     paper |-> paper,
     font_name |-> font_name,
     bbox |-> Size(image.width * 12, image.height * 12),
     translate |-> PostscriptOffset(image, m, paper),
     scale |-> PostscriptScale(image, m, paper),
     draws |-> PostscriptDraws(image, grid)]

\* kwargs.get('font_name', 'Courier'): a font_name of None stays None
PostscriptFont(kwargs) ==
    IF "font_name" \in DOMAIN kwargs THEN kwargs.font_name ELSE [some |-> "Courier"]

PaperOf(kwargs) == IF "paper" \in DOMAIN kwargs THEN kwargs.paper ELSE "a4"

ToPostscript(kwargs) ==
    /\ IF im = None
       THEN ret' = None /\ err' = "AttributeError"
       ELSE /\ ret' = Postscript(im, result, margins, PaperOf(kwargs),
                                 PostscriptFont(kwargs))
            /\ err' = ""
    /\ log' = [op |-> "to_postscript", steps |-> <<>>]
    /\ UNCHANGED <<disk, margins, luminosity, im, result>>

(***************************************************************************)
(* Asciifier.to_pdf                                                        *)
(***************************************************************************)
\* inner: the paper less the margins, in whole mm
PdfInner(m, paper) ==
    Size(RCeil(RSub(RSub(PAPER_SIZES[paper].width, RInt(m.left)), RInt(m.right))),
         RCeil(RSub(RSub(PAPER_SIZES[paper].height, RInt(m.top)), RInt(m.bottom))))

PdfScale(image, m, paper) == RDiv(PdfInner(m, paper).width, RInt(image.width))

PdfOffset(image, m, paper) ==
    Point(RAdd(RInt(m.left),
               RDiv(RSub(PdfInner(m, paper).width,
                         RMul(RInt(image.width), PdfScale(image, m, paper))),
                    RInt(2))),
          RAdd(RInt(m.bottom),
               RDiv(RSub(PdfInner(m, paper).height,
                         RMul(RInt(image.height), PdfScale(image, m, paper))),
                    RInt(2))))

\* len('BT /F1 {} Tf {} {} Td ({}) Tj ET'.format(size, x, y, c))
TjLen(size, x, y) ==
    Len("BT /F1 ") + StrFloatLen(size) + Len(" Tf ") + StrFloatLen(x) + Len(" ")
    + StrFloatLen(y) + Len(" Td (") + 1 + Len(") Tj ET")

\* where the cell c of an image of the given size is put, the font size it
\* is set in and the length of its line in the stream
PdfPlace(size, m, paper, c) ==
    LET image  == [width |-> size[1], height |-> size[2]]
        scale  == PdfScale(image, m, paper)
        offset == PdfOffset(image, m, paper)
        x      == RAdd(offset.x, RMul(RInt(c[1] - 1), scale))
        y      == RAdd(offset.y, RMul(scale, RInt(image.height - (c[2] - 1))))
    IN  [size |-> scale, x |-> x, y |-> y, len |-> TjLen(scale, x, y)]

\* PdfPlace for the sizes, margins and papers of the model, computed once
PdfPlaceOf ==
    [size \in Sizes, m \in MarginChoices, paper \in ModelPapers \cup {"a4"},
     c \in (1..MaxPixels) \X (1..MaxPixels) |->
        IF c[1] <= size[1] /\ c[2] <= size[2] THEN PdfPlace(size, m, paper, c)
        ELSE None] @@ <<>>

\* the 'BT /F1 size Tf x y Td (c) Tj ET' lines
PdfGlyphs(image, grid, m, paper) ==
    LET cells == NonBlank(image, grid)
    IN  [i \in 1..Len(cells) |->
            LET g == PdfPlaceOf[<<image.width, image.height>>, m, paper, cells[i]]
            IN  [c |-> grid[cells[i][1]][cells[i][2]],
                 size |-> g.size, x |-> g.x, y |-> g.y, len |-> g.len]]

RECURSIVE SumFrom(_, _, _)
SumFrom(arr, i, acc) ==
    IF i > Len(arr) THEN acc ELSE SumFrom(arr, i + 1, acc + arr[i])

\* len(sep.join(lines)) for a one-byte sep, from the lengths of the lines
JoinLen(lens) == IF lens = <<>> THEN 0 ELSE SumFrom(lens, 1, 0) + Len(lens) - 1

\* len(stream) before compression
StreamLen(glyphs) == JoinLen([i \in 1..Len(glyphs) |-> glyphs[i].len])

\* len(zlib.compress(stream, 9)): 8 bytes for the empty stream; for n bytes
\* the deflate output is the data's, from 9 bytes up to the n + 11 of a
\* stored block.  The model takes the two ends
CompressedLens(n) == IF n = 0 THEN {8} ELSE {9, n + 11}

\* len('{}'.format(v)) of a paper dimension: an int, or the float of 'letter'
PaperNumLen(v) == IF v[2] = 1 THEN DecLen(v[1]) ELSE StrFloatLen(v)

\* len('     /MediaBox [0 0 {} {}]'.format(paper.width, paper.height)),
\* computed once
MediaBoxLen ==
    [paper \in PAPER_CHOICES |->
        Len("     /MediaBox [0 0 ") + PaperNumLen(PAPER_SIZES[paper].width)
        + Len(" ") + PaperNumLen(PAPER_SIZES[paper].height) + Len("]")] @@ <<>>

Ramps == {DefaultLuminosity} \cup {FontRamp[f] : f \in DOMAIN FontRamp}

MinOf(seq) == CHOOSE m \in {seq[i] : i \in 1..Len(seq)} :
                \A i \in 1..Len(seq) : m <= seq[i]
MaxOf(seq) == CHOOSE m \in {seq[i] : i \in 1..Len(seq)} :
                \A i \in 1..Len(seq) : m >= seq[i]

\* ord(min(self.luminosity)), ord(max(self.luminosity)), computed once
FirstChar == [ramp \in Ramps |-> MinOf(ramp)] @@ <<>>
LastChar == [ramp \in Ramps |-> MaxOf(ramp)] @@ <<>>

\* len(' '.join(map(lambda x: str(x), [200] * n)))
GlyphWidthsLen(n) == IF n = 0 THEN 0 ELSE n * Len("200") + (n - 1)

\* blocks: each the object it declares (0: none) and the lengths of its lines
PdfBlocks(paper, font_name, ramp, stream_len, compress) ==
    <<[obj |-> 0, lines |-> <<Len("%PDF-1.7"), Len("%") + 3>>],
      [obj |-> 1, lines |-> <<Len("1 0 obj<< /Type/Catalog/Pages 2 0 R >>endobj")>>],
      [obj |-> 2, lines |->
          <<Len("2 0 obj<< /Type/Pages/Count 1 /Kids [3 0 R] >>endobj")>>],
      [obj |-> 3, lines |->
          <<Len("3 0 obj<< /Type/Page"),
            Len("     /UserUnit 2.834645669"),
            MediaBoxLen[paper],
            Len("     /Parent 2 0 R"),
            Len("     /Resources << /Font << /F1 4 0 R >> >>"),
            Len("     /Contents 5 0 R"),
            Len("  >>"),
            Len("endobj")>>],
      [obj |-> 4, lines |->
          <<Len("4 0 obj"),
            Len("  << /Type/Font /Subtype/TrueType /Name/F1"),
            Len("     /BaseFont/") + Len(font_name),
            Len("     /FirstChar ") + DecLen(FirstChar[ramp])
                + Len(" /LastChar ") + DecLen(LastChar[ramp]),
            Len("     /Widths 7 0 R"),
            Len("     /FontDescriptor 8 0 R"),
            Len("     /Encoding/MacRomanEncoding") + Len("  >>"),
            Len("endobj")>>],
      [obj |-> 5, lines |->
          <<Len("5 0 obj<< /Length ") + DecLen(stream_len) + Len(" ")
                + (IF compress THEN Len("/Filter[/FlateDecode]") ELSE 0)
                + Len(">>stream"),
            stream_len,
            Len("endstream"),
            Len("endobj")>>],
      [obj |-> 6, lines |->
          <<Len("6 0 obj<<"),
            Len("  /Producer(ASCIIfier)"),
            Len("  /Creator(ASCIIfier)"),
            Len("  /Subject(retro computing)"),
            Len("  /Keywords(ASCII art fun)"),
            Len("  /CreationDate(D:") + Len("20151231235959") + Len(")"),
            Len(">>endobj")>>],
      [obj |-> 7, lines |->
          <<Len("7 0 obj ["),
            GlyphWidthsLen(Len(ramp)),
            Len("]")>>],
      [obj |-> 8, lines |-> <<Len("8 0 obj<<"), Len(">>")>>]>>

RECURSIVE CumsumFrom(_, _, _, _)
CumsumFrom(arr, i, sum, acc) ==
    IF i > Len(arr) THEN acc
    ELSE CumsumFrom(arr, i + 1, sum + arr[i], Append(acc, sum + arr[i]))

cumsum(arr) == CumsumFrom(arr, 1, 0, <<>>)

\* cumsum(map(len, map('\n'.join, blocks)))
BlockOffsets(blocks) == cumsum([i \in 1..Len(blocks) |-> JoinLen(blocks[i].lines)])

\* len('{0:010d}'.format(n))
Pad10Len(n) == Max(10, DecLen(n))

\* the cross-reference section and trailer built from blockoffsets
PdfXref(blocks) ==
    LET blockoffsets == BlockOffsets(blocks)
        blockcount   == Len(blockoffsets)
    IN  [count |-> blockcount,
         entries |-> <<[offset |-> 0, generation |-> 65535, flag |-> "f"]>>
                     \o [i \in 1..blockcount |->
                           [offset |-> blockoffsets[i], generation |-> 0, flag |-> "n"]],
         root |-> 1,
         info |-> 6,
         size |-> Len(blocks) + 1,
         startxref |-> blockoffsets[blockcount]]

XrefLines(xref) ==
    <<Len("xref"), Len("0 ") + DecLen(xref.count)>>
    \o [i \in 1..Len(xref.entries) |->
          Pad10Len(xref.entries[i].offset)
          + (IF xref.entries[i].flag = "f" THEN Len(" 65535 f") ELSE Len(" 00000 n"))]
    \o <<Len("trailer<<"),
         Len("  /Root 1 0 R"),
         Len("  /Info 6 0 R"),
         Len("  /Size ") + DecLen(xref.size),
         Len(">>"),
         Len("startxref"),
         DecLen(xref.startxref),
         Len("%%EOF")>>

\* the document: the blocks with the xref block appended, '\n' between blocks
Pdf(image, grid, m, paper, font_name, ramp, compress, stream_len) ==
    LET blocks == PdfBlocks(paper, font_name, ramp, stream_len, compress)
        xref   == PdfXref(blocks)
    IN  [kind |-> "pdf",
         paper |-> paper,
         compress |-> compress,
         glyphs |-> PdfGlyphs(image, grid, m, paper),
         blocks |-> Append(blocks, [obj |-> 0, lines |-> XrefLines(xref)]),
         xref |-> xref]

CompressOf(kwargs) == IF "compress" \in DOMAIN kwargs THEN kwargs.compress ELSE TRUE

\* kwargs.get('font_name') is not None
HasFont(kwargs) == "font_name" \in DOMAIN kwargs /\ kwargs.font_name # None

PdfFont(kwargs) == IF HasFont(kwargs) THEN kwargs.font_name.some ELSE "Courier"

\* self.luminosity after the font step of to_pdf
PdfLuminosity(ramp, kwargs) ==
    IF HasFont(kwargs) THEN LuminosityMapping(ramp, kwargs.font_name.some) ELSE ramp

\* the lengths the content stream may have in the document
StreamLens(image, grid, m, kwargs) ==
    LET n == StreamLen(PdfGlyphs(image, grid, m, PaperOf(kwargs)))
    IN  IF CompressOf(kwargs) THEN CompressedLens(n) ELSE {n}

ToPdf(kwargs) ==
    /\ luminosity' = PdfLuminosity(luminosity, kwargs)
    /\ IF im = None
       THEN ret' = None /\ err' = "AttributeError"
       ELSE /\ \E n \in StreamLens(im, result, margins, kwargs) :
                 ret' = Pdf(im, result, margins, PaperOf(kwargs), PdfFont(kwargs),
                            luminosity', CompressOf(kwargs), n)
            /\ err' = ""
    /\ log' = [op |-> "to_pdf", steps |-> <<>>]
    /\ UNCHANGED <<disk, margins, im, result>>

Init ==
    /\ disk \in Images
    /\ margins \in MarginChoices
    /\ luminosity = DefaultLuminosity
    /\ im = None
    /\ result = NoResult
    /\ ret = None
    /\ err = ""
    /\ log = [op |-> "__init__", steps |-> <<>>]

\* the papers and font names the calls of the model pass
FontNames == {None} \cup {[some |-> f] : f \in Fonts}

PostscriptKwargs ==
    {<<>>} \cup {[paper |-> p] : p \in ModelPapers}
           \cup {[font_name |-> f] : f \in FontNames}

PdfKwargs ==
    {<<>>, [compress |-> FALSE]}
    \cup {[paper |-> p] : p \in ModelPapers}
    \cup {[font_name |-> f] : f \in FontNames}

Next ==
    \/ \E kwargs \in ProcessKwargs : Process(kwargs)
    \/ \E f \in Fonts : GenerateLuminosityMapping(f)
    \/ ToPlainText
    \/ \E kwargs \in PostscriptKwargs : ToPostscript(kwargs)
    \/ \E kwargs \in PdfKwargs : ToPdf(kwargs)

Spec == Init /\ [][Next]_vars

(***************************************************************************)
(* main: one run of the command line                                       *)
(***************************************************************************)
Some(v) == [some |-> v]

\* args.out.endswith(suffix)
EndsWith(name, suffix) ==
    /\ Len(name) >= Len(suffix)
    /\ \A i \in 1..Len(suffix) : name[Len(name) - Len(suffix) + i] = suffix[i]

\* the --out file names of the model, as code points, and their suffixes
OutNames ==
    [txt |-> <<97, 46, 116, 120, 116>>,
     ps  |-> <<97, 46, 112, 115>>,
     pdf |-> <<97, 46, 112, 100, 102>>]
DotPs == <<46, 112, 115>>
DotPdf == <<46, 112, 100, 102>>

OutputType(args) ==
    IF args.type \in {Some("postscript"), Some("pdf")} THEN args.type.some
    ELSE IF args.out # None /\ EndsWith(OutNames[args.out.some], DotPs) THEN "postscript"
    ELSE IF args.out # None /\ EndsWith(OutNames[args.out.some], DotPdf) THEN "pdf"
    ELSE "text"

MainAspect(args) == IF args.aspect # None THEN args.aspect.some ELSE <<2, 1>>
MainResolution(args) == IF args.resolution # None THEN args.resolution.some ELSE 80
MainPaper(args) == IF args.paper # None THEN args.paper.some ELSE "a3"
\* font_name is taken from --font only when --paper is given
MainFont(args) == IF args.paper # None THEN args.font ELSE Some("Courier")

\* variant: no output type passes aspect_ratio
MainProcessKwargsNoAspect(args) == [resolution |-> MainResolution(args)]

\* the kwargs main passes to process for the output type
MainProcessKwargs(args) ==
    IF OutputType(args) = "text"
    THEN [resolution |-> MainResolution(args), aspect_ratio |-> MainAspect(args)]
    ELSE [resolution |-> MainResolution(args)]

\* the render call of each output type
RenderOf ==
    [text |-> "to_plain_text", postscript |-> "to_postscript", pdf |-> "to_pdf"]

MainRenderKwargs(args) == [paper |-> MainPaper(args), font_name |-> MainFont(args)]

MainArgs ==
    [out : {None} \cup {Some(n) : n \in DOMAIN OutNames},
     type : {None} \cup {Some(t) : t \in TYPE_CHOICES},
     aspect : {None} \cup {Some(a) : a \in MainAspectChoices},
     font : {None, Some("fonts/Hack-Bold.ttf")},
     paper : {None, Some("letter")},
     resolution : {None} \cup {Some(r) : r \in ResolutionChoices}]

\* main runs once, on a new Asciifier, from the first statement to the last
Main(args) ==
    /\ log.op = "__init__"
    /\ InBounds(disk, MainProcessKwargs(args))
    /\ LET kwargs == MainProcessKwargs(args)
           o      == ProcessOutcome(disk, DefaultLuminosity, kwargs)
           render == MainRenderKwargs(args)
           type   == OutputType(args)
           sink   == IF args.out = None THEN "print" ELSE "write"
       IN  /\ im' = o.im
           /\ result' = o.result
           /\ margins' = DefaultMargin
           /\ IF o.err # ""
              THEN /\ err' = o.err
                   /\ ret' = None
                   /\ luminosity' = DefaultLuminosity
                   /\ log' = [op |-> "main", steps |-> ProcessSteps(kwargs)]
              ELSE /\ err' = ""
                   /\ luminosity' = IF type = "pdf"
                                    THEN PdfLuminosity(DefaultLuminosity, render)
                                    ELSE DefaultLuminosity
                   /\ CASE type = "text" ->
                             ret' = [kind |-> "text", text |-> PlainText(o.result)]
                        [] type = "postscript" ->
                             ret' = Postscript(o.im, o.result, DefaultMargin,
                                               PaperOf(render), PostscriptFont(render))
                        [] type = "pdf" ->
                             \E n \in StreamLens(o.im, o.result, DefaultMargin, render) :
                                 ret' = Pdf(o.im, o.result, DefaultMargin, PaperOf(render),
                                            PdfFont(render), luminosity',
                                            CompressOf(render), n)
                   /\ log' = [op |-> "main",
                              steps |-> ProcessSteps(kwargs)
                                        \o <<RenderOf[type], sink>>]
    /\ UNCHANGED disk

SpecMain == Init /\ [][\E args \in MainArgs : Main(args)]_vars

(***************************************************************************)
(* The output buffer of to_pdf: '\n'.join(map(lambda l: '\n'.join(l),      *)
(* blocks)).                                                               *)
(***************************************************************************)
IsPdf(r) == "kind" \in DOMAIN r /\ r.kind = "pdf"
IsPostscript(r) == "kind" \in DOMAIN r /\ r.kind = "postscript"
IsText(r) == "kind" \in DOMAIN r /\ r.kind = "text"

\* the position in the buffer of the first byte of block i: every block
\* before it, and the '\n' that follows each
BlockStart(blocks, i) ==
    SumFrom([j \in 1..(i - 1) |-> JoinLen(blocks[j].lines) + 1], 1, 0)

\* the objects the buffer declares, and the block that declares object k
Objects(blocks) == {blocks[i].obj : i \in 1..Len(blocks)} \ {0}
ObjectBlock(blocks, k) == CHOOSE i \in 1..Len(blocks) : blocks[i].obj = k

\* the in-use entries of the cross-reference section, in order
InUse(xref) == SelectSeq(xref.entries, LAMBDA e : e.flag = "n")

(***************************************************************************)
(* Properties.                                                             *)
(***************************************************************************)
\* C1: in every document of to_pdf, the k-th in-use cross-reference entry
\* records the position in the output buffer, header and separator bytes
\* included, of the first byte of the declaration 'k 0 obj' of object k.
C1_XrefOffsetsExact ==
    IsPdf(ret) =>
        \A k \in Objects(ret.blocks) :
            /\ k <= Len(InUse(ret.xref))
            /\ InUse(ret.xref)[k].offset = BlockStart(ret.blocks, ObjectBlock(ret.blocks, k))

\* C3: in every document of to_pdf, the number after 'startxref' is the
\* position in the output buffer of the first byte of the 'xref' keyword,
\* whatever the length of the content stream.
C3_StartxrefExact ==
    IsPdf(ret) => ret.xref.startxref = BlockStart(ret.blocks, Len(ret.blocks))

\* C5: in every document of to_pdf, /Size is the number of objects plus one
\* for the free slot, and the cross-reference section holds that many
\* entries: entry 0 free with generation 65535, then one in-use entry per
\* object, as many as the subsection header declares.
C5_SizeCountsObjects ==
    IsPdf(ret) =>
        LET n == Cardinality(Objects(ret.blocks))
            entries == ret.xref.entries
        IN  /\ ret.xref.size = n + 1
            /\ Len(entries) = n + 1
            /\ entries[1].flag = "f" /\ entries[1].generation = 65535
            /\ \A i \in 2..Len(entries) : entries[i].flag = "n"
            /\ ret.xref.count = Len(entries)

\* the printable area of the paper a document was rendered for, in mm
PrintableLeft(paper, m) == RInt(m.left)
PrintableRight(paper, m) == RSub(PAPER_SIZES[paper].width, RInt(m.right))
PrintableBottom(paper, m) == RInt(m.bottom)
PrintableTop(paper, m) == RSub(PAPER_SIZES[paper].height, RInt(m.top))

\* where the page shows a draw of to_postscript, in points: the translate
\* and scale of the prolog applied to its moveto
DevicePoint(doc, d) ==
    Point(RAdd(doc.translate.x, RMul(doc.scale, RInt(d.x))),
          RAdd(doc.translate.y, RMul(doc.scale, RInt(d.y))))

PostscriptInside(doc, m) ==
    \A i \in 1..Len(doc.draws) :
        LET at == DevicePoint(doc, doc.draws[i])
        IN  /\ Mm2ptLe(PrintableLeft(doc.paper, m), at.x)
            /\ LeMm2pt(at.x, PrintableRight(doc.paper, m))
            /\ Mm2ptLe(PrintableBottom(doc.paper, m), at.y)
            /\ LeMm2pt(at.y, PrintableTop(doc.paper, m))

PdfInside(doc, m) ==
    \A i \in 1..Len(doc.glyphs) :
        /\ RLe(PrintableLeft(doc.paper, m), doc.glyphs[i].x)
        /\ RLe(doc.glyphs[i].x, PrintableRight(doc.paper, m))
        /\ RLe(PrintableBottom(doc.paper, m), doc.glyphs[i].y)
        /\ RLe(doc.glyphs[i].y, PrintableTop(doc.paper, m))

\* C6: the glyph positions of to_postscript (after its translate and scale)
\* and of to_pdf lie inside the printable area, the paper less the margins
\* in the unit of the paper: none left of the left margin, right of the
\* right margin, below the bottom margin or above the top margin, whatever
\* the width and height of the grid.
C6_GlyphsInsidePrintableArea ==
    /\ IsPostscript(ret) => PostscriptInside(ret, margins)
    /\ IsPdf(ret) => PdfInside(ret, margins)

RenderOps == {"to_plain_text", "to_postscript", "to_pdf"}

\* the characters of a grid
GridChars(grid) == {grid[x][y] : <<x, y>> \in (1..Len(grid)) \X (1..Len(grid[1]))}

\* C10: rendering keeps no state: a call of to_plain_text, to_postscript or
\* to_pdf, with or without a font_name, leaves the grid, its shape and the
\* active ramp as they were, and every character of the grid stays a member
\* of the ramp.
C10_RenderKeepsNoState ==
    [][(result # NoResult /\ log'.op \in RenderOps) =>
          /\ result' = result
          /\ im' = im
          /\ luminosity' = luminosity
          /\ result' # NoResult =>
                GridChars(result') \subseteq {luminosity'[i] : i \in 1..Len(luminosity')}]_vars

AllCells(image) == (1..image.width) \X (1..image.height)

\* C2: for the RGB triples and ramps of the model, the index process
\* computes, int(l * N / 255) with l = 0.2126 r + 0.7152 g + 0.0722 b, is in
\* 0..N-1: white gives no index N and the lookup never raises.
C2_IndexInRange ==
    /\ err # "IndexError"
    /\ im # None =>
          \A c \in AllCells(im) :
              PixelIndex(im, c[1], c[2], Len(luminosity)) \in 0..(Len(luminosity) - 1)

\* a white pixel was looked up in the generated ramp and took its last place
C2_Witness ==
    /\ log.op = "process"
    /\ luminosity # DefaultLuminosity
    /\ \E c \in AllCells(im) :
          /\ im.px[c[1]][c[2]] = White
          /\ PixelIndex(im, c[1], c[2], Len(luminosity)) = Len(luminosity) - 1

\* C4: with the default ramp a black pixel maps to ramp[0] and a white pixel
\* to the last ramp character, the blank; a one-pixel black image gives a
\* 1x1 grid whose cell is ramp[0].
C4_BlackFirstWhiteLast ==
    (log.op = "process" /\ luminosity = DefaultLuminosity) =>
        /\ \A c \in AllCells(im) :
              /\ im.px[c[1]][c[2]] = Black => result[c[1]][c[2]] = DefaultLuminosity[1]
              /\ im.px[c[1]][c[2]] = White =>
                    /\ result[c[1]][c[2]] = DefaultLuminosity[Len(DefaultLuminosity)]
                    /\ result[c[1]][c[2]] = Space
        /\ (disk = [width |-> 1, height |-> 1, px |-> <<<<Black>>>>] /\ im.width = 1) =>
              result = <<<<DefaultLuminosity[1]>>>>

\* process mapped a black and a white pixel with the default ramp
C4_Witness ==
    /\ log.op = "process"
    /\ luminosity = DefaultLuminosity
    /\ \E c, d \in AllCells(im) :
          /\ im.px[c[1]][c[2]] = Black /\ result[c[1]][c[2]] = DefaultLuminosity[1]
          /\ im.px[d[1]][d[2]] = White /\ result[d[1]][d[2]] = Space

\* C7: generate_luminosity_mapping with a font that cannot be loaded is a
\* no-op: the ramp after the call is the ramp before it and no error is
\* raised, so the calls that follow work with that ramp.
C7_FailedLoadKeepsRamp ==
    [][(log'.op = "generate_luminosity_mapping" /\ log'.steps = <<"truetype", "IOError">>)
          => (luminosity' = luminosity /\ err' = "")]_vars

\* a failed load left a generated ramp in place
C7_Witness ==
    /\ log.op = "generate_luminosity_mapping"
    /\ log.steps = <<"truetype", "IOError">>
    /\ luminosity # DefaultLuminosity

RECURSIVE SplitFrom(_, _, _, _)
SplitFrom(text, i, line, acc) ==
    IF i > Len(text) THEN Append(acc, line)
    ELSE IF text[i] = Newline[1] THEN SplitFrom(text, i + 1, <<>>, Append(acc, line))
    ELSE SplitFrom(text, i + 1, Append(line, text[i]), acc)

\* text.split('\n')
Split(text) == SplitFrom(text, 1, <<>>, <<>>)

\* C8: for a grid of w columns and h rows, to_plain_text returns h lines
\* joined by single newlines, line y being grid[0][y]..grid[w-1][y] with
\* only the trailing whitespace removed; a white 2x2 image gives two empty
\* lines, a single newline.
C8_PlainTextRows ==
    (log.op = "to_plain_text" /\ err = "") =>
        LET lines == Split(ret.text)
            w == Len(result)
            h == Len(result[1])
        IN  /\ Len(lines) = h
            /\ \A y \in 1..h :
                  /\ Len(lines[y]) <= w
                  /\ \A x \in 1..Len(lines[y]) : lines[y][x] = result[x][y]
                  /\ \A x \in (Len(lines[y]) + 1)..w : result[x][y] \in Whitespace
                  /\ lines[y] # <<>> => lines[y][Len(lines[y])] \notin Whitespace
            /\ (im.width = 2 /\ im.height = 2
                /\ \A c \in AllCells(im) : im.px[c[1]][c[2]] = White)
                  => ret.text = Newline

\* a row kept its leading blank and another lost its trailing blank
C8_Witness ==
    /\ log.op = "to_plain_text"
    /\ IsText(ret)
    /\ result = <<<<Space, DefaultLuminosity[1]>>, <<DefaultLuminosity[1], Space>>>>
    /\ ret.text = <<Space, DefaultLuminosity[1]>> \o Newline \o <<DefaultLuminosity[1]>>

\* step a comes before step b, and b is a step
Before(steps, a, b) ==
    \E i, j \in 1..Len(steps) : i < j /\ steps[i] = a /\ steps[j] = b

====
